---- MODULE Spec2Model ----
(***************************************************************************)
(* WildQuest (traveling_agency): the booking, capacity and lifecycle logic *)
(* of views.py, forms.py, models.py and admin.py as a state machine.       *)
(*                                                                         *)
(* The database holds one followed Event row, its PricingTier rows, the    *)
(* Booking, BookingParticipant and WhatsAppBooking tables.  Web requests   *)
(* run concurrently: each booking_create request reads the event once      *)
(* (views.py:203), validates the form against that in-memory copy, and     *)
(* writes inside transaction.atomic() (views.py:227).  Staff requests are  *)
(* single read-modify-write steps, except admin_event_edit, whose load and *)
(* save are separate steps because Event.save() writes the whole row.      *)
(***************************************************************************)
EXTENDS Integers, Sequences, FiniteSets, TLC

\* ------------------------------------------------------------------ bounds
NumRequests == 2
MaxBookings == 2
MaxWhatsApp == 1
MaxPayments == 1
MaxAdults == 2
MaxChildren == 1
Capacity == 4
\* the pricing runs: group bookings of five and more on a larger event
GroupAdults == 4
GroupChildren == 2
GroupCapacity == 6

\* ------------------------------------------------------- program constants
MaxAdultsPerBooking == 20
MaxChildrenPerBooking == 20
\* views.py:252: the group discount applies from this many participants
GroupDiscountThreshold == 5
\* seed_data.py:824: the seed's bookings get it from this many
SeedDiscountThreshold == 4
\* seed_data.py:811: a seeded booking has at most this many participants
SeedMaxParticipants == 4
\* seed_data.py:827: 16% VAT, in hundredths
SeedTaxRate == 16

Req == 1..NumRequests
ThisEvent == 1
OtherEvent == 2
NoTier == 0
Tiers == {1, 2}
NoBooking == 0
NoEvent == 0
\* what event.status holds once the Event row has been deleted: no row, so no
\* status that any lookup could match
NoRow == "no row"
\* Event.child_price is NULL
NoPrice == 0 - 1

\* Money is counted in cents (DecimalField, decimal_places=2) and
\* group_discount_percentage in hundredths of a percent (decimal_places=2), so
\* base * (percentage / 100) is base * percentage over PercentScale, in cents.
PercentScale == 10000

\* models.py:65-70
STATUS_CHOICES == {"draft", "published", "suspended", "cancelled"}
\* models.py:214-220
BOOKING_STATUS == {"pending", "confirmed", "paid", "cancelled", "completed"}
\* models.py:301-308
PAYMENT_STATUS == {"pending", "processing", "completed", "failed", "refunded",
                   "cancelled"}

VARIABLES
    event,          \* the Event row: status, max/min participants, current_bookings
    tiers,          \* PricingTier rows, by primary key
    bookings,       \* Booking rows, by primary key (a sequence)
    participants,   \* BookingParticipant rows
    whatsapp,       \* WhatsAppBooking rows
    payments,       \* Payment rows
    deadlinePassed, \* timezone.now() >= event.booking_deadline
    req,            \* each booking_create request: position, inputs, in-memory event
    tx,             \* each request's uncommitted writes inside transaction.atomic()
    eventLock,      \* the request holding the event row's write lock (0: none)
    staff,          \* the admin_event_edit request: position and loaded instance
    message         \* level of the last message of admin_booking_update_status

vars == <<event, tiers, bookings, participants, whatsapp, payments, deadlinePassed,
          req, tx, eventLock, staff, message>>

db == <<event, tiers, bookings, participants, whatsapp, payments>>

\* ------------------------------------------------------------ model: Event
available_spots(e) == e.max_participants - e.current_bookings

is_fully_booked(e) == e.current_bookings >= e.max_participants

\* is_booking_open with the fully-booked test (models.py:165) left out
is_booking_open_ignoring_capacity(e) ==
    /\ e.status = "published"
    /\ ~deadlinePassed

is_booking_open(e) ==
    /\ e.status = "published"
    /\ ~deadlinePassed
    /\ ~is_fully_booked(e)

\* ------------------------------------------------------------ money columns
\* Storing a Decimal in a DecimalField(decimal_places=2) column keeps two
\* places: n / d cents becomes the nearest whole cent, a half going to the even
\* cent (django.db.backends.utils.format_number quantizes under the decimal
\* module's default ROUND_HALF_EVEN).
Quantize(n, d) ==
    LET q == n \div d
        r == n % d
    IN  IF 2 * r < d THEN q
        ELSE IF 2 * r > d THEN q + 1
        ELSE IF q % 2 = 0 THEN q ELSE q + 1

\* ------------------------------------------------------ model: PricingTier
tier_available_spots(t) == t.max_capacity - t.current_bookings

\* BookingForm.__init__: self.event.pricing_tiers.filter(is_active=True)
pricing_tier_queryset == {t \in Tiers : tiers[t].event = ThisEvent /\ tiers[t].is_active}

\* --------------------------------------------------------- form validation
\* clean_adults_count with the at-least-one test (forms.py:159-160) left out;
\* the field itself (a PositiveIntegerField's form field) still refuses negatives
clean_adults_count_allowing_zero(adults) ==
    /\ adults >= 0
    /\ adults <= MaxAdultsPerBooking

clean_adults_count(adults) ==
    /\ adults >= 1
    /\ adults <= MaxAdultsPerBooking

clean_children_count(children) ==
    /\ children >= 0
    /\ children <= MaxChildrenPerBooking

\* clean with the available-spots test (forms.py:210-214) left out
clean_without_spots_check(e, adults, children, tier) ==
    LET adults_count == IF clean_adults_count(adults) THEN adults ELSE 0
        children_count == IF clean_children_count(children) THEN children ELSE 0
        total_participants == adults_count + children_count
    IN  /\ total_participants # 0
        /\ total_participants >= e.min_participants
        /\ total_participants <= e.max_participants
        /\ (tier # NoTier /\ tier \in pricing_tier_queryset)
              => total_participants <= tier_available_spots(tiers[tier])

\* clean with the minimum-participants test (forms.py:198-202) left out
clean_without_min_check(e, adults, children, tier) ==
    LET adults_count == IF clean_adults_count(adults) THEN adults ELSE 0
        children_count == IF clean_children_count(children) THEN children ELSE 0
        total_participants == adults_count + children_count
    IN  /\ total_participants # 0
        /\ total_participants <= e.max_participants
        /\ total_participants <= available_spots(e)
        /\ (tier # NoTier /\ tier \in pricing_tier_queryset)
              => total_participants <= tier_available_spots(tiers[tier])

\* clean with the tier-capacity test (forms.py:216-220) left out
clean_without_tier_check(e, adults, children, tier) ==
    LET adults_count == IF clean_adults_count(adults) THEN adults ELSE 0
        children_count == IF clean_children_count(children) THEN children ELSE 0
        total_participants == adults_count + children_count
    IN  /\ total_participants # 0
        /\ total_participants >= e.min_participants
        /\ total_participants <= e.max_participants
        /\ total_participants <= available_spots(e)

\* BookingForm.clean: a field that failed its own validation is absent from
\* cleaned_data and counts as 0 here.
clean(e, adults, children, tier) ==
    LET adults_count == IF clean_adults_count(adults) THEN adults ELSE 0
        children_count == IF clean_children_count(children) THEN children ELSE 0
        total_participants == adults_count + children_count
    IN  /\ total_participants # 0
        /\ total_participants >= e.min_participants
        /\ total_participants <= e.max_participants
        /\ total_participants <= available_spots(e)
        /\ (tier # NoTier /\ tier \in pricing_tier_queryset)
              => total_participants <= tier_available_spots(tiers[tier])

\* is_valid with the pricing_tier field accepting any tier (its queryset,
\* forms.py:108-112, not narrowed to the event's active tiers)
is_valid_any_tier(e, adults, children, tier) ==
    /\ clean_adults_count(adults)
    /\ clean_children_count(children)
    /\ clean(e, adults, children, tier)

\* form.is_valid(): every field's validation and then clean()
is_valid(e, adults, children, tier) ==
    /\ tier = NoTier \/ tier \in pricing_tier_queryset
    /\ clean_adults_count(adults)
    /\ clean_children_count(children)
    /\ clean(e, adults, children, tier)

\* ------------------------------------------------------------------- rows
NoEntries == << >>
ParticipantInputs ==
    { NoEntries,
      <<[name |-> "Ann", ptype |-> "adult"]>> }

\* admin_event_create / seed_data: a published event with no bookings yet
NewEvent ==
    [status |-> "published", max_participants |-> Capacity,
     min_participants |-> 1, current_bookings |-> 0,
     base_price |-> 100, child_price |-> 50, group_discount_percentage |-> 1000]

IdleReq ==
    [pc |-> "idle", outcome |-> "none", event |-> NewEvent, adults |-> 0,
     children |-> 0, pricing_tier |-> NoTier, entries |-> NoEntries,
     overlap |-> {}, failedAt |-> "none"]

IdleStaff == [pc |-> "idle", instance |-> NewEvent]

NoTx == [bookings |-> << >>, participants |-> << >>, event |-> << >>]

InFlight == {r \in Req : req[r].pc \notin {"idle", "done"}}
InTx == {"valid", "saved", "parts", "counted"}

Total(r) == req[r].adults + req[r].children

\* ------------------------------------------------------------------- Init
Init ==
    /\ event = NewEvent
    \* seed_data.py:553-561: a tier of max_participants // 2 places, its counter
    \* drawn from 0..max_participants // 4
    /\ \E c \in 0..(Capacity \div 4) :
          tiers = [t \in Tiers |->
                     [event |-> IF t = 1 THEN ThisEvent ELSE OtherEvent,
                      price |-> 200,
                      max_capacity |-> Capacity \div 2,
                      current_bookings |-> IF t = 1 THEN c ELSE 0,
                      is_active |-> TRUE]]
    /\ bookings = << >>
    /\ participants = << >>
    /\ whatsapp = << >>
    /\ payments = << >>
    /\ deadlinePassed = FALSE
    /\ req = [r \in Req |-> IdleReq]
    /\ tx = [r \in Req |-> NoTx]
    /\ eventLock = 0
    /\ staff = IdleStaff
    /\ message = "none"

\* ------------------------------------------------- booking_create (views.py)
\* views.py:203-207: get_object_or_404(Event, status='published') and the
\* is_booking_open test, both on the row as read now.
booking_create_load(r) ==
    /\ req[r].pc = "idle"
    /\ Len(bookings) + Cardinality(InFlight) < MaxBookings
    /\ IF event.status # "published"
         THEN req' = [req EXCEPT ![r] = [IdleReq EXCEPT !.pc = "done", !.outcome = "notfound"]]
         ELSE IF ~is_booking_open(event)
           THEN req' = [req EXCEPT ![r] =
                          [IdleReq EXCEPT !.pc = "done", !.outcome = "closed", !.event = event]]
           ELSE req' = [req EXCEPT ![r] =
                          [IdleReq EXCEPT !.pc = "loaded", !.event = event, !.overlap = InFlight]]
    /\ UNCHANGED <<db, deadlinePassed, tx, eventLock, staff, message>>

\* views.py:213-224: BookingForm(request.POST, event=event).is_valid() on the
\* in-memory event; the pricing tier is fetched from the database here.
booking_create_validate(r, adults, children, tier, entries) ==
    /\ req[r].pc = "loaded"
    /\ LET filled == [req[r] EXCEPT !.adults = adults, !.children = children,
                                    !.pricing_tier = tier, !.entries = entries]
       IN  IF is_valid(req[r].event, adults, children, tier)
             THEN req' = [req EXCEPT ![r] = [filled EXCEPT !.pc = "valid"]]
             ELSE req' = [req EXCEPT ![r] =
                            [IdleReq EXCEPT !.pc = "done", !.outcome = "invalid",
                                            !.event = req[r].event,
                                            !.adults = adults, !.children = children,
                                            !.pricing_tier = tier]]
    /\ UNCHANGED <<db, deadlinePassed, tx, eventLock, staff, message>>

\* base_amount with the child price added only when no tier is selected
base_amount_child_price_without_tier(e, tier, adults, children) ==
    IF tier # NoTier
      THEN tiers[tier].price * adults
      ELSE e.base_price * adults
           + (IF e.child_price # NoPrice /\ e.child_price # 0 /\ children > 0
                THEN e.child_price * children ELSE 0)

\* views.py:234-247: the tier's price or the event's base price per adult; the
\* child price per child when it is set and not zero (a NULL or a zero Decimal
\* is false in `if event.child_price`).  In cents.
base_amount(e, tier, adults, children) ==
    IF tier # NoTier
      THEN tiers[tier].price * adults
           + (IF e.child_price # NoPrice /\ e.child_price # 0 /\ children > 0
                THEN e.child_price * children ELSE 0)
      ELSE e.base_price * adults
           + (IF e.child_price # NoPrice /\ e.child_price # 0 /\ children > 0
                THEN e.child_price * children ELSE 0)

\* views.py:249-254: base * (percentage / 100) for a group, else 0; the exact
\* Decimal, in cents over PercentScale
discount_amount(e, base, total_participants) ==
    IF total_participants >= GroupDiscountThreshold /\ e.group_discount_percentage > 0
      THEN base * e.group_discount_percentage
      ELSE 0

\* NewBooking with the discount computed and stored but not taken off the total
NewBooking_total_without_discount(r) ==
    LET base == base_amount(req[r].event, req[r].pricing_tier,
                            req[r].adults, req[r].children)
        discount == discount_amount(req[r].event, base,
                                    req[r].adults + req[r].children)
    IN  [event |-> ThisEvent,
         pricing_tier |-> NoTier,
         number_of_participants |-> req[r].adults + req[r].children,
         adults_count |-> req[r].adults,
         children_count |-> req[r].children,
         base_amount |-> Quantize(base, 1),
         discount_amount |-> Quantize(discount, PercentScale),
         tax_amount |-> 0,
         total_amount |-> Quantize(base * PercentScale, PercentScale),
         booking_method |-> "online",
         status |-> "pending",
         confirmed_at |-> FALSE]

\* views.py:229-263: form.save(commit=False), booking.event, counts, amounts;
\* booking.save() stores the amounts in two-place columns.
\* pricing_tier is not among BookingForm.Meta.fields, so it is not stored;
\* status and tax_amount take the model defaults.
NewBooking(r) ==
    LET base == base_amount(req[r].event, req[r].pricing_tier,
                            req[r].adults, req[r].children)
        discount == discount_amount(req[r].event, base,
                                    req[r].adults + req[r].children)
    IN  [event |-> ThisEvent,
         pricing_tier |-> NoTier,
         number_of_participants |-> req[r].adults + req[r].children,
         adults_count |-> req[r].adults,
         children_count |-> req[r].children,
         base_amount |-> Quantize(base, 1),
         discount_amount |-> Quantize(discount, PercentScale),
         tax_amount |-> 0,
         total_amount |-> Quantize(base * PercentScale - discount, PercentScale),
         booking_method |-> "online",
         status |-> "pending",
         confirmed_at |-> FALSE]

booking_create_save(r) ==
    /\ req[r].pc = "valid"
    /\ tx' = [tx EXCEPT ![r].bookings = <<NewBooking(r)>>]
    /\ req' = [req EXCEPT ![r].pc = "saved"]
    /\ UNCHANGED <<db, deadlinePassed, eventLock, staff, message>>

\* str.strip() on the names the requests submit
Strip(name) ==
    CASE name = " " -> ""
      [] name = " Ann " -> "Ann"
      [] OTHER -> name

\* the ptype of an entry whose index is beyond participant_types[] (views.py:282)
NoType == "(none)"

\* views.py:274-292: one BookingParticipant per entry whose name is not blank
\* (`if name and name.strip()`), its name stripped; participant_types[i] as
\* submitted, 'adult' only when the list has no i-th element
RECURSIVE ParticipantRows(_)
ParticipantRows(entries) ==
    IF entries = << >> THEN << >>
    ELSE LET e == Head(entries)
         IN  (IF e.name # "" /\ Strip(e.name) # ""
                THEN <<[name |-> Strip(e.name),
                        participant_type |-> IF e.ptype = NoType THEN "adult"
                                                                 ELSE e.ptype]>>
                ELSE << >>) \o ParticipantRows(Tail(entries))

booking_create_participants(r) ==
    /\ req[r].pc = "saved"
    /\ tx' = [tx EXCEPT ![r].participants = ParticipantRows(req[r].entries)]
    /\ req' = [req EXCEPT ![r].pc = "parts"]
    /\ UNCHANGED <<db, deadlinePassed, eventLock, staff, message>>

\* views.py:298-300: the in-memory event's counter is raised and the whole row
\* is written (Event.save); the UPDATE takes the row's write lock until commit.
booking_create_count(r) ==
    /\ req[r].pc = "parts"
    /\ eventLock = 0
    /\ eventLock' = r
    /\ tx' = [tx EXCEPT ![r].event =
                <<[req[r].event EXCEPT !.current_bookings = @ + Total(r)]>>]
    /\ req' = [req EXCEPT ![r].pc = "counted"]
    /\ UNCHANGED <<db, deadlinePassed, staff, message>>

\* The rows of transaction t as they enter the tables at commit
CommittedParticipants(t, pk) ==
    [i \in 1..Len(t.participants) |->
        [booking |-> pk, name |-> t.participants[i].name,
         participant_type |-> t.participants[i].participant_type]]

\* views.py:227, 309: leaving the atomic block normally commits every write
booking_create_commit(r) ==
    /\ req[r].pc = "counted"
    /\ bookings' = bookings \o tx[r].bookings
    /\ participants' = participants \o CommittedParticipants(tx[r], Len(bookings) + 1)
    /\ event' = tx[r].event[1]
    /\ eventLock' = 0
    /\ tx' = [tx EXCEPT ![r] = NoTx]
    /\ req' = [req EXCEPT ![r].pc = "done", ![r].outcome = "success",
                          ![r].entries = NoEntries]
    /\ UNCHANGED <<tiers, whatsapp, payments, deadlinePassed, staff, message>>

\* The exception handled inside the atomic block: the block then ends normally
\* and the writes made so far are committed.
Rollback_commits_partial_writes(r) ==
    /\ bookings' = bookings \o tx[r].bookings
    /\ participants' = participants \o CommittedParticipants(tx[r], Len(bookings) + 1)
    /\ event' = IF tx[r].event # << >> THEN tx[r].event[1] ELSE event
    /\ UNCHANGED <<tiers, whatsapp, payments>>

\* views.py:227, 311-313: an exception leaves the atomic block, which rolls the
\* transaction's writes back; the view reports the error.
Rollback(r) ==
    /\ UNCHANGED <<event, tiers, bookings, participants, whatsapp, payments>>

booking_create_fail(r) ==
    /\ req[r].pc \in InTx
    /\ Rollback(r)
    /\ eventLock' = IF eventLock = r THEN 0 ELSE eventLock
    /\ tx' = [tx EXCEPT ![r] = NoTx]
    /\ req' = [req EXCEPT ![r] = [IdleReq EXCEPT !.pc = "done", !.outcome = "error",
                                                 !.failedAt = req[r].pc]]
    /\ UNCHANGED <<deadlinePassed, staff, message>>

\* the response is sent; the request's objects are gone
booking_create_return(r) ==
    /\ req[r].pc = "done"
    /\ req' = [req EXCEPT ![r] = IdleReq]
    /\ UNCHANGED <<db, deadlinePassed, tx, eventLock, staff, message>>

\* ------------------------------------------------------------ staff actions
\* views.py:1188-1207
admin_booking_update_status(b, new_status) ==
    /\ b \in 1..Len(bookings)
    /\ IF new_status \in BOOKING_STATUS
         THEN /\ bookings' = [bookings EXCEPT
                     ![b].status = new_status,
                     ![b].confirmed_at =
                         IF new_status = "confirmed" /\ bookings[b].status # "confirmed"
                           THEN TRUE ELSE @]
              /\ message' = "success"
         ELSE /\ bookings' = bookings
              /\ message' = "error"
    /\ UNCHANGED <<event, tiers, participants, whatsapp, payments, deadlinePassed,
                   req, tx, eventLock, staff>>

\* admin.py:525-528: queryset.update(status='confirmed', confirmed_at=now)
confirm_bookings(S) ==
    /\ S # {} /\ S \subseteq 1..Len(bookings)
    /\ bookings' = [b \in 1..Len(bookings) |->
                      IF b \in S
                        THEN [bookings[b] EXCEPT !.status = "confirmed", !.confirmed_at = TRUE]
                        ELSE bookings[b]]
    /\ UNCHANGED <<event, tiers, participants, whatsapp, payments, deadlinePassed,
                   req, tx, eventLock, staff, message>>

\* admin.py:530-533: queryset.update(status='cancelled')
cancel_bookings(S) ==
    /\ S # {} /\ S \subseteq 1..Len(bookings)
    /\ bookings' = [b \in 1..Len(bookings) |->
                      IF b \in S THEN [bookings[b] EXCEPT !.status = "cancelled"]
                                 ELSE bookings[b]]
    /\ UNCHANGED <<event, tiers, participants, whatsapp, payments, deadlinePassed,
                   req, tx, eventLock, staff, message>>

\* views.py:509-526: the WhatsApp intake record; participants_count is
\* int(participants) unchecked, and the PositiveIntegerField column
\* (models.py:342) refuses only negatives
whatsapp_booking(n) ==
    /\ event.status = "published"
    /\ n >= 0
    /\ Len(whatsapp) < MaxWhatsApp
    /\ whatsapp' = Append(whatsapp,
                     [event |-> ThisEvent, participants_count |-> n,
                      status |-> "new", booking |-> NoBooking])
    /\ UNCHANGED <<event, tiers, bookings, participants, payments, deadlinePassed,
                   req, tx, eventLock, staff, message>>

\* views.py:1291-1302: the Booking made from a WhatsApp request
WhatsAppApprovedBooking(w) ==
    [event |-> w.event,
     pricing_tier |-> NoTier,
     number_of_participants |-> w.participants_count,
     adults_count |-> w.participants_count,
     children_count |-> 0,
     base_amount |-> event.base_price * w.participants_count,
     discount_amount |-> 0,
     tax_amount |-> 0,
     total_amount |-> event.base_price * w.participants_count,
     booking_method |-> "whatsapp",
     status |-> "confirmed",
     confirmed_at |-> FALSE]

\* views.py:1282-1320
admin_whatsapp_process(w, action) ==
    /\ w \in 1..Len(whatsapp)
    /\ IF action = "approve"
         THEN /\ Len(bookings) + Cardinality(InFlight) < MaxBookings
              /\ bookings' = Append(bookings, WhatsAppApprovedBooking(whatsapp[w]))
              /\ whatsapp' = [whatsapp EXCEPT ![w].booking = Len(bookings) + 1,
                                              ![w].status = "approved"]
         ELSE IF action = "reject"
           THEN /\ whatsapp' = [whatsapp EXCEPT ![w].status = "rejected"]
                /\ bookings' = bookings
           ELSE UNCHANGED <<bookings, whatsapp>>
    /\ UNCHANGED <<event, tiers, participants, payments, deadlinePassed,
                   req, tx, eventLock, staff, message>>

\* views.py:1089: the edit request reads the event row into the form's instance
admin_event_edit_load ==
    /\ staff.pc = "idle"
    /\ event.status # NoRow
    /\ staff' = [pc |-> "loaded", instance |-> event]
    /\ UNCHANGED <<db, deadlinePassed, req, tx, eventLock, message>>

\* forms.py:782-805 EventForm.clean: the only cross-field rule on capacity
EventForm_is_valid(max_participants, min_participants) ==
    /\ max_participants >= 0
    /\ min_participants >= 0
    /\ (min_participants # 0 /\ max_participants # 0)
          => ~(min_participants > max_participants)

\* views.py:1092-1096: form.save() writes every column of the loaded instance,
\* the edited fields replaced; the UPDATE waits for the row's write lock.
admin_event_edit_save(max_participants, min_participants, status) ==
    /\ staff.pc = "loaded"
    /\ IF EventForm_is_valid(max_participants, min_participants)
         THEN /\ eventLock = 0
              /\ event' = [staff.instance EXCEPT
                              !.max_participants = max_participants,
                              !.min_participants = min_participants,
                              !.status = status]
         ELSE event' = event
    /\ staff' = IdleStaff
    /\ UNCHANGED <<tiers, bookings, participants, whatsapp, payments, deadlinePassed,
                   req, tx, eventLock, message>>

\* views.py:1103-1111: event.delete() removes the Event row and, through the
\* CASCADE foreign keys (models.py:192, 230, 280, 310, 338), its tiers,
\* bookings, their participants and payments, and its WhatsApp requests.  The
\* DELETE waits for the row's write lock.
admin_event_delete ==
    /\ event.status # NoRow
    /\ eventLock = 0
    /\ event' = [event EXCEPT !.status = NoRow]
    /\ tiers' = [t \in Tiers |->
                   IF tiers[t].event = ThisEvent
                     THEN [tiers[t] EXCEPT !.event = NoEvent, !.is_active = FALSE]
                     ELSE tiers[t]]
    /\ bookings' = << >>
    /\ participants' = << >>
    /\ payments' = << >>
    /\ whatsapp' = << >>
    /\ UNCHANGED <<deadlinePassed, req, tx, eventLock, staff, message>>

\* admin.py:384-389 (and the inline, admin.py:84-88): the admin change form of a
\* tier; max_capacity and is_active are editable, current_bookings is read-only.
PricingTierAdmin_change(t, max_capacity, is_active) ==
    /\ t \in Tiers
    /\ max_capacity >= 0
    /\ tiers' = [tiers EXCEPT ![t].max_capacity = max_capacity,
                              ![t].is_active = is_active]
    /\ UNCHANGED <<event, bookings, participants, whatsapp, payments, deadlinePassed,
                   req, tx, eventLock, staff, message>>

\* models.py:164: time passes the event's booking_deadline
DeadlinePasses ==
    /\ ~deadlinePassed
    /\ deadlinePassed' = TRUE
    /\ UNCHANGED <<db, req, tx, eventLock, staff, message>>

\* admin.py:551-581: the admin's add form of a Payment; booking, amount and
\* status are its fields
PaymentAdmin_add(b, amount, status) ==
    /\ b \in 1..Len(bookings)
    /\ status \in PAYMENT_STATUS
    /\ Len(payments) < MaxPayments
    /\ payments' = Append(payments, [booking |-> b, amount |-> amount, status |-> status])
    /\ UNCHANGED <<event, tiers, bookings, participants, whatsapp, deadlinePassed,
                   req, tx, eventLock, staff, message>>

\* admin.py:551-581: the admin's change form of a Payment; status is editable,
\* and saving it writes the Payment row only
PaymentAdmin_change(p, status) ==
    /\ p \in 1..Len(payments)
    /\ status \in PAYMENT_STATUS
    /\ payments' = [payments EXCEPT ![p].status = status]
    /\ UNCHANGED <<event, tiers, bookings, participants, whatsapp, deadlinePassed,
                   req, tx, eventLock, staff, message>>

\* ------------------------------------------- seed_data (management command)
\* seed_data.py:815-844: the sample Booking; the amounts are exact Decimals
\* until the row is stored.  discount is in cents over PercentScale, tax and
\* total in cents over PercentScale * 100.
SeedBooking(e, participants_, adults, method, status) ==
    LET children == participants_ - adults
        base == e.base_price * adults
                + (IF children > 0 /\ e.child_price # NoPrice /\ e.child_price # 0
                     THEN e.child_price * children ELSE 0)
        discount == IF participants_ >= SeedDiscountThreshold
                      THEN base * e.group_discount_percentage
                      ELSE 0
        taxable == base * PercentScale - discount
        tax == taxable * SeedTaxRate
    IN  [event |-> ThisEvent,
         pricing_tier |-> NoTier,
         number_of_participants |-> participants_,
         adults_count |-> adults,
         children_count |-> children,
         base_amount |-> Quantize(base, 1),
         discount_amount |-> Quantize(discount, PercentScale),
         tax_amount |-> Quantize(tax, PercentScale * 100),
         total_amount |-> Quantize(taxable * 100 + tax, PercentScale * 100),
         booking_method |-> method,
         status |-> status,
         confirmed_at |-> FALSE]

\* seed_data.py:853-864: one BookingParticipant per participant, adults first
SeedParticipants(pk, participants_, adults) ==
    [j \in 1..participants_ |->
        [booking |-> pk, name |-> "John Doe",
         participant_type |-> IF j <= adults THEN "adult" ELSE "child"]]

\* seed_data.py:808-877: one turn of create_bookings' loop.  The command runs
\* before the site takes requests, and its bookings come before its payments.
seed_create_booking(participants_, adults, method, status) ==
    /\ InFlight = {} /\ staff.pc = "idle"
    /\ payments = << >>
    /\ Len(bookings) < MaxBookings
    /\ participants_ \in 1..SeedMaxParticipants
    /\ participants_ <= event.max_participants - event.current_bookings
    /\ adults \in 1..participants_
    /\ bookings' = Append(bookings, SeedBooking(event, participants_, adults, method, status))
    /\ participants' = participants
                          \o SeedParticipants(Len(bookings) + 1, participants_, adults)
    /\ event' = [event EXCEPT !.current_bookings = @ + participants_]
    /\ UNCHANGED <<tiers, whatsapp, payments, deadlinePassed, req, tx, eventLock,
                   staff, message>>

\* seed_data.py:888-916: one turn of create_payments' loop over the bookings;
\* the status is drawn at random, and is completed when the booking is paid
seed_create_payment(b, status) ==
    /\ InFlight = {} /\ staff.pc = "idle"
    /\ b \in 1..Len(bookings)
    /\ \A p \in 1..Len(payments) : payments[p].booking # b
    /\ payments' = Append(payments,
                     [booking |-> b, amount |-> bookings[b].total_amount,
                      status |-> IF bookings[b].status = "paid" THEN "completed"
                                                                ELSE status])
    /\ UNCHANGED <<event, tiers, bookings, participants, whatsapp, deadlinePassed,
                   req, tx, eventLock, staff, message>>

\* ------------------------------------------------------------------- Next
StatusInputs == BOOKING_STATUS \cup {"refunded"}
ActionInputs == {"approve", "reject", "view"}

\* the steps of the booking_create requests R, their POST data drawn from the
\* adult counts A, the child counts C, the tier choices T and the participant
\* lists P
BookingStepsWith(R, A, C, T, P) ==
    \/ \E r \in R : booking_create_load(r)
    \/ \E r \in R, adults \in A, children \in C, tier \in T, entries \in P :
           booking_create_validate(r, adults, children, tier, entries)
    \/ \E r \in R : booking_create_save(r)
    \/ \E r \in R : booking_create_participants(r)
    \/ \E r \in R : booking_create_count(r)
    \/ \E r \in R : booking_create_commit(r)
    \/ \E r \in R : booking_create_fail(r)
    \/ \E r \in R : booking_create_return(r)

BookingSteps(R, T, P) ==
    BookingStepsWith(R, 0..MaxAdults, 0..MaxChildren, T, P)

OneParticipant == {<<[name |-> "Ann", ptype |-> "adult"]>>}

\* Concurrent booking requests and staff event edits
Next ==
    \/ BookingSteps(Req, {NoTier, 1}, OneParticipant)
    \/ admin_event_edit_load
    \/ \E mx \in {Capacity \div 2, Capacity} :
           admin_event_edit_save(mx, 1, "published")

Spec == Init /\ [][Next]_vars

\* One booking request at a time, WhatsApp intake and the staff's status operations
LifecycleNext ==
    \/ BookingSteps({1}, {NoTier}, OneParticipant)
    \/ \E b \in 1..Len(bookings), s \in StatusInputs : admin_booking_update_status(b, s)
    \/ \E S \in SUBSET (1..Len(bookings)) : confirm_bookings(S)
    \/ \E S \in SUBSET (1..Len(bookings)) : cancel_bookings(S)
    \/ \E n \in 0..(MaxAdults + MaxChildren) : whatsapp_booking(n)
    \/ \E w \in 1..Len(whatsapp), a \in ActionInputs : admin_whatsapp_process(w, a)

LifecycleSpec == Init /\ [][LifecycleNext]_vars

\* One booking request at a time, the staff's changes of the event's tiers and
\* the passing booking deadline
CatalogNext ==
    \/ BookingSteps({1}, {NoTier} \cup Tiers, ParticipantInputs)
    \/ \E t \in {u \in Tiers : tiers[u].event = ThisEvent},
          c \in 0..(Capacity \div 2), a \in BOOLEAN :
           PricingTierAdmin_change(t, c, a)
    \/ DeadlinePasses

CatalogSpec == Init /\ [][CatalogNext]_vars

\* The event's prices as staff may have entered them (EventForm, forms.py:590-599:
\* base_price, child_price and group_discount_percentage are plain decimal
\* fields; the percentage column holds up to 999.99 and the form bounds it only
\* in the browser, forms.py:694-700).  In cents and hundredths of a percent.
BasePriceInputs == {100, 105}
ChildPriceInputs == {NoPrice, 0, 50}
DiscountPercentageInputs == {0, 1000, 1250, 15000}

\* a published event for groups, its prices drawn from the inputs
PricingInit ==
    /\ \E bp \in BasePriceInputs, cp \in ChildPriceInputs, g \in DiscountPercentageInputs :
          event = [NewEvent EXCEPT !.max_participants = GroupCapacity,
                                   !.base_price = bp, !.child_price = cp,
                                   !.group_discount_percentage = g]
    /\ tiers = [t \in Tiers |->
                  [event |-> IF t = 1 THEN ThisEvent ELSE OtherEvent,
                   price |-> 200,
                   max_capacity |-> GroupCapacity \div 2,
                   current_bookings |-> 0,
                   is_active |-> TRUE]]
    /\ bookings = << >>
    /\ participants = << >>
    /\ whatsapp = << >>
    /\ payments = << >>
    /\ deadlinePassed = FALSE
    /\ req = [r \in Req |-> IdleReq]
    /\ tx = [r \in Req |-> NoTx]
    /\ eventLock = 0
    /\ staff = IdleStaff
    /\ message = "none"

\* One booking request at a time, for up to GroupAdults adults and GroupChildren
\* children, with or without the event's tier
PricingNext ==
    BookingStepsWith({1}, 0..GroupAdults, 0..GroupChildren, {NoTier, 1}, OneParticipant)

PricingSpec == PricingInit /\ [][PricingNext]_vars

\* One booking request at a time, its counts possibly zero or negative, while
\* staff suspend, republish or resize the event and the booking deadline passes
AvailabilityNext ==
    \/ BookingStepsWith({1}, (0 - 1)..MaxAdults, (0 - 1)..MaxChildren,
                        {NoTier}, OneParticipant)
    \/ admin_event_edit_load
    \/ \E mx \in {Capacity \div 2, Capacity}, st \in {"published", "suspended"} :
           admin_event_edit_save(mx, 1, st)
    \/ DeadlinePasses

AvailabilitySpec == Init /\ [][AvailabilityNext]_vars

\* One booking request at a time while staff change the event's minimum and
\* maximum participants
LimitsNext ==
    \/ BookingSteps({1}, {NoTier}, OneParticipant)
    \/ admin_event_edit_load
    \/ \E mx \in {Capacity \div 2, Capacity}, mn \in {1, 2} :
           admin_event_edit_save(mx, mn, "published")

LimitsSpec == Init /\ [][LimitsNext]_vars

\* participant_names[] and participant_types[] as submitted: blank and padded
\* names, types given, empty, or missing from the end of the list
ParticipantEntryInputs ==
    { NoEntries,
      <<[name |-> "Ann", ptype |-> "child"]>>,
      <<[name |-> "", ptype |-> "adult"], [name |-> " Ann ", ptype |-> NoType]>>,
      <<[name |-> " ", ptype |-> "child"], [name |-> "Ann", ptype |-> NoType]>>,
      <<[name |-> "Ann", ptype |-> "infant"], [name |-> "Ann", ptype |-> ""]>> }

\* One booking request at a time with its participant entries
ParticipantNext ==
    BookingStepsWith({1}, 0..MaxAdults, 0..MaxChildren, {NoTier}, ParticipantEntryInputs)

ParticipantSpec == Init /\ [][ParticipantNext]_vars

\* One booking request at a time, the staff's status updates and the payments
\* staff record against bookings
PaymentNext ==
    \/ BookingSteps({1}, {NoTier}, OneParticipant)
    \/ \E b \in 1..Len(bookings), s \in BOOKING_STATUS : admin_booking_update_status(b, s)
    \/ \E b \in 1..Len(bookings), s \in PAYMENT_STATUS :
           PaymentAdmin_add(b, bookings[b].total_amount, s)
    \/ \E p \in 1..Len(payments), s \in PAYMENT_STATUS : PaymentAdmin_change(p, s)

PaymentSpec == Init /\ [][PaymentNext]_vars

\* One booking request at a time, payments recorded by staff, and the staff's
\* deletion of the event
DeletionNext ==
    \/ BookingSteps({1}, {NoTier}, OneParticipant)
    \/ \E b \in 1..Len(bookings), s \in PAYMENT_STATUS :
           PaymentAdmin_add(b, bookings[b].total_amount, s)
    \/ admin_event_delete

DeletionSpec == Init /\ [][DeletionNext]_vars

\* seed_data.py:805-806, 886: the random draws followed here; booking_statuses
\* in full, one of the four booking_methods and two of the four payment_statuses
SeedMethodInputs == {"phone"}
SeedStatusInputs == {"confirmed", "paid", "pending", "completed"}
SeedPaymentStatusInputs == {"completed", "pending"}

\* The seed command filling the tables of an event
SeedNext ==
    \/ \E n \in 1..SeedMaxParticipants, adults \in 1..SeedMaxParticipants,
          m \in SeedMethodInputs, st \in SeedStatusInputs :
           seed_create_booking(n, adults, m, st)
    \/ \E b \in 1..Len(bookings), st \in SeedPaymentStatusInputs :
           seed_create_payment(b, st)

SeedSpec == PricingInit /\ [][SeedNext]_vars

C3_AllOrNothing ==
    [][\A r \in Req :
          (req[r].pc \in InTx /\ req'[r].outcome = "error")
          => /\ bookings' = bookings
             /\ participants' = participants
             /\ event' = event
             /\ tiers' = tiers]_vars

\* a request failed after writing its booking, participant and counter, and the
\* tables show none of it
C3_Witness ==
    \E r \in Req :
        /\ req[r].outcome = "error"
        /\ req[r].failedAt = "counted"
        /\ bookings = << >>
        /\ participants = << >>
        /\ event.current_bookings = 0

\* C4: a request whose participants exceed the available spots of the event it
\* read is rejected at validation; no booking is made and the event is unchanged.
C4_InsufficientSpotsRejected ==
    [][\A r \in Req :
          (/\ req[r].pc = "loaded"
           /\ req'[r].pc # "loaded"
           /\ req'[r].adults + req'[r].children > available_spots(req[r].event))
          => /\ req'[r].pc = "done"
             /\ req'[r].outcome = "invalid"
             /\ bookings' = bookings
             /\ participants' = participants
             /\ event' = event]_vars

\* a request within the event's minimum and maximum, with spots left but fewer
\* than it asks for, was rejected and the counter is the one it read
C4_Witness ==
    \E r \in Req :
        /\ req[r].outcome = "invalid"
        /\ req[r].adults >= 1
        /\ Total(r) >= req[r].event.min_participants
        /\ Total(r) <= req[r].event.max_participants
        /\ available_spots(req[r].event) > 0
        /\ Total(r) > available_spots(req[r].event)
        /\ event = req[r].event
        /\ Len(bookings) = 1

C6_TierCapacityInvariant ==
    \A t \in Tiers :
        /\ 0 <= tiers[t].current_bookings
        /\ tiers[t].current_bookings <= tiers[t].max_capacity

\* the lifecycle's edges: pending -> confirmed -> paid -> completed, and
\* cancelled from any status before completed
LegalStatusEdges ==
    {<<"pending", "confirmed">>, <<"confirmed", "paid">>, <<"paid", "completed">>,
     <<"pending", "cancelled">>, <<"confirmed", "cancelled">>, <<"paid", "cancelled">>}

\* C7: a booking's status changes only along pending -> confirmed -> paid ->
\* completed, or to cancelled from a status before completed; no other change
\* of status takes effect.
C7_OnlyLegalTransitions ==
    [][\A b \in 1..Len(bookings) :
          bookings'[b].status # bookings[b].status
          => <<bookings[b].status, bookings'[b].status>> \in LegalStatusEdges]_vars

\* C8: when one pending or confirmed booking is cancelled, event.current_bookings
\* drops by that booking's number_of_participants (stated for a booking that
\* booking_create made, whose participants the counter holds).
C8_CancelReleasesSpots ==
    [][\A b \in 1..Len(bookings) :
          (/\ bookings[b].booking_method = "online"
           /\ bookings[b].status \in {"pending", "confirmed"}
           /\ bookings'[b].status = "cancelled"
           /\ \A c \in 1..Len(bookings) : c # b => bookings'[c] = bookings[c])
          => event'.current_bookings
               = event.current_bookings - bookings[b].number_of_participants]_vars

\* C9: asking to cancel a booking that is already cancelled reports an error,
\* changes no booking and leaves event.current_bookings as it is.
C9_CancelTwiceIsError ==
    [][\A b \in 1..Len(bookings) :
          (bookings[b].status = "cancelled" /\ admin_booking_update_status(b, "cancelled"))
          => /\ message' = "error"
             /\ bookings' = bookings
             /\ event'.current_bookings = event.current_bookings]_vars

\* C10: every booking is pending at the moment it is created.
C10_CreatedPending ==
    [][Len(bookings') > Len(bookings)
          => \A b \in (Len(bookings) + 1)..Len(bookings') :
                bookings'[b].status = "pending"]_vars

\* C11: whenever a booking enters status confirmed, by a status update, the
\* admin's confirm action or a WhatsApp approval, its confirmed_at is set.
C11_ConfirmedAtSet ==
    [][\A b \in 1..Len(bookings') :
          (/\ bookings'[b].status = "confirmed"
           /\ (b > Len(bookings) \/ bookings[b].status # "confirmed"))
          => bookings'[b].confirmed_at]_vars

\* C12: a booking's base_amount is tier.price * adults when a tier is selected,
\* else event.base_price * adults, plus event.child_price * children when
\* children > 0 and the event has a child price.
C12_BaseAmount ==
    [][\A r \in Req :
          (req[r].pc = "counted" /\ req'[r].outcome = "success")
          => LET e == req[r].event
                 adults == req[r].adults
                 children == req[r].children
                 perAdult == IF req[r].pricing_tier # NoTier
                               THEN tiers[req[r].pricing_tier].price
                               ELSE e.base_price
                 forChildren == IF children > 0 /\ e.child_price # NoPrice
                                  THEN e.child_price * children
                                  ELSE 0
             IN  bookings'[Len(bookings')].base_amount
                   = perAdult * adults + forChildren]_vars

\* a booking of one adult and one child at the tier's price, on an event with a
\* child price, is stored with base_amount = tier.price + child_price
C12_Witness ==
    \E b \in 1..Len(bookings) :
        /\ bookings[b].adults_count = 1
        /\ bookings[b].children_count = 1
        /\ event.child_price # NoPrice /\ event.child_price > 0
        /\ tiers[1].price # event.base_price
        /\ bookings[b].base_amount = tiers[1].price + event.child_price

\* C13: a stored booking's group discount is base * group_discount_percentage
\* / 100 (to the cent) exactly when adults + children >= 5 and the percentage is
\* above 0, and is 0 otherwise.
C13_GroupDiscount ==
    [][\A b \in (Len(bookings) + 1)..Len(bookings') :
          bookings'[b].discount_amount
            = IF /\ bookings'[b].adults_count + bookings'[b].children_count >= 5
                 /\ event.group_discount_percentage > 0
                THEN Quantize(bookings'[b].base_amount * event.group_discount_percentage,
                              PercentScale)
                ELSE 0]_vars

\* C14: every stored booking, whichever path created it, has base_amount,
\* discount_amount, tax_amount and total_amount all non-negative and
\* total_amount = base_amount - discount_amount + tax_amount.
C14_AmountsConsistent ==
    \A b \in 1..Len(bookings) :
        /\ bookings[b].base_amount >= 0
        /\ bookings[b].discount_amount >= 0
        /\ bookings[b].tax_amount >= 0
        /\ bookings[b].total_amount >= 0
        /\ bookings[b].total_amount
             = bookings[b].base_amount - bookings[b].discount_amount
               + bookings[b].tax_amount

\* C15: booking_create makes no booking for an event that, when the request
\* reads it, is not published, is past its booking deadline or is fully booked:
\* such a request ends there, and every booking committed comes from a request
\* that read a published event with room left.
C15_ClosedEventNotBooked ==
    [][\A r \in Req :
          /\ (/\ req[r].pc = "idle"
              /\ req'[r].pc # "idle"
              /\ \/ event.status # "published"
                 \/ deadlinePassed
                 \/ event.current_bookings >= event.max_participants)
             => /\ req'[r].pc = "done"
                /\ req'[r].outcome \in {"notfound", "closed"}
                /\ bookings' = bookings
          /\ bookings' # bookings /\ req'[r].outcome = "success" /\ req[r].pc = "counted"
             => /\ req[r].event.status = "published"
                /\ req[r].event.current_bookings < req[r].event.max_participants]_vars

\* a request was turned away from a published event before its deadline, because
\* the event it read was fully booked
C15_Witness ==
    \E r \in Req :
        /\ req[r].pc = "done"
        /\ req[r].outcome = "closed"
        /\ req[r].event.status = "published"
        /\ ~deadlinePassed
        /\ req[r].event.current_bookings >= req[r].event.max_participants
        /\ Len(bookings) = 1

\* The pricing calculation for an event, tier, adults and children: base and
\* base - discount, the latter in cents over PercentScale
PricingBase(e, tier, adults, children) ==
    (IF tier # NoTier THEN tiers[tier].price ELSE e.base_price) * adults
    + (IF children > 0 /\ e.child_price # NoPrice THEN e.child_price * children ELSE 0)

PricingTotal(e, tier, adults, children) ==
    LET base == PricingBase(e, tier, adults, children)
    IN  IF adults + children >= 5 /\ e.group_discount_percentage > 0
          THEN base * PercentScale - base * e.group_discount_percentage
          ELSE base * PercentScale

C17_CompletedPaymentPromotes ==
    \A p \in 1..Len(payments) :
        payments[p].status = "completed"
        => bookings[payments[p].booking].status \notin {"pending", "confirmed"}

\* C18: no step removes a Booking row, and the Event row is never deleted while
\* a booking references it.
C18_BookingsNeverDeleted ==
    [][/\ Len(bookings') >= Len(bookings)
       /\ (bookings # << >> /\ event.status # NoRow) => event'.status # NoRow]_vars

\* C19: approving a WhatsApp request goes through the same validation as
\* create_booking: it makes a booking only when the event is open and
\* participants_count is within the event's available spots, and then raises
\* event.current_bookings by participants_count.
C19_WhatsAppApprovalChecksCapacity ==
    [][\A w \in 1..Len(whatsapp) :
          (/\ whatsapp[w].booking = NoBooking
           /\ whatsapp'[w].booking # NoBooking)
          => /\ is_booking_open(event)
             /\ whatsapp[w].participants_count <= available_spots(event)
             /\ event'.current_bookings
                  = event.current_bookings + whatsapp[w].participants_count]_vars

\* C20: a booking request with adults < 1, or with a negative adults or children
\* count, is rejected at validation, before any change to storage.
C20_BadCountsRejected ==
    [][\A r \in Req :
          (/\ req[r].pc = "loaded"
           /\ req'[r].pc # "loaded"
           /\ req'[r].adults < 1 \/ req'[r].children < 0)
          => /\ req'[r].pc = "done"
             /\ req'[r].outcome = "invalid"
             /\ db' = db
             /\ tx' = tx]_vars

\* a request for no adult and one child, on an event with room for it, was
\* rejected and nothing was stored
C20_Witness ==
    \E r \in Req :
        /\ req[r].pc = "done"
        /\ req[r].outcome = "invalid"
        /\ req[r].adults = 0
        /\ req[r].children = 1
        /\ available_spots(req[r].event) >= 1
        /\ req[r].event.min_participants <= 1
        /\ bookings = << >>
        /\ event.current_bookings = 0

\* C21: a booking request that selects a pricing tier which does not belong to
\* the event being booked, or is inactive, is rejected; it creates no booking and
\* changes no counter.
C21_UnknownTierRejected ==
    [][\A r \in Req :
          (/\ req[r].pc = "loaded"
           /\ req'[r].pc # "loaded"
           /\ req'[r].pricing_tier # NoTier
           /\ \/ tiers[req'[r].pricing_tier].event # ThisEvent
              \/ ~tiers[req'[r].pricing_tier].is_active)
          => /\ req'[r].pc = "done"
             /\ req'[r].outcome = "invalid"
             /\ db' = db
             /\ tx' = tx]_vars

\* a request for one adult that selected another event's tier was rejected,
\* although the event it read had room, and nothing was stored
C21_Witness ==
    \E r \in Req :
        /\ req[r].pc = "done"
        /\ req[r].outcome = "invalid"
        /\ req[r].adults = 1
        /\ req[r].children = 0
        /\ req[r].pricing_tier # NoTier
        /\ tiers[req[r].pricing_tier].event = OtherEvent
        /\ tier_available_spots(tiers[req[r].pricing_tier]) >= 1
        /\ req[r].event = event
        /\ available_spots(event) >= 1
        /\ event.min_participants <= 1
        /\ bookings = << >>

\* C22: a booking request whose total participants are below the minimum or
\* above the maximum of the event it read is rejected, with no booking created
\* and no counter changed; every booking that booking_create commits has
\* min_participants <= number_of_participants <= max_participants of that event.
C22_ParticipantLimits ==
    [][\A r \in Req :
          /\ (/\ req[r].pc = "loaded"
              /\ req'[r].pc # "loaded"
              /\ \/ req'[r].adults + req'[r].children < req[r].event.min_participants
                 \/ req'[r].adults + req'[r].children > req[r].event.max_participants)
             => /\ req'[r].pc = "done"
                /\ req'[r].outcome = "invalid"
                /\ db' = db
                /\ tx' = tx
          /\ (req[r].pc = "counted" /\ req'[r].outcome = "success")
             => LET n == bookings'[Len(bookings')].number_of_participants
                IN  /\ req[r].event.min_participants <= n
                    /\ n <= req[r].event.max_participants]_vars

\* a request for one adult, on an event with room left and a minimum of two,
\* was rejected and nothing was stored
C22_Witness ==
    \E r \in Req :
        /\ req[r].pc = "done"
        /\ req[r].outcome = "invalid"
        /\ req[r].adults = 1
        /\ req[r].children = 0
        /\ req[r].event.min_participants = 2
        /\ available_spots(req[r].event) >= 2
        /\ event = req[r].event
        /\ bookings = << >>

\* C23: a booking request that selects one of the event's active tiers and whose
\* total participants exceed that tier's available spots (max_capacity -
\* current_bookings) is rejected, with no booking created and neither the event
\* counter nor the tier counter changed.
C23_TierSpotsRejected ==
    [][\A r \in Req :
          (/\ req[r].pc = "loaded"
           /\ req'[r].pc # "loaded"
           /\ req'[r].pricing_tier \in pricing_tier_queryset
           /\ req'[r].adults + req'[r].children
                > tiers[req'[r].pricing_tier].max_capacity
                  - tiers[req'[r].pricing_tier].current_bookings)
          => /\ req'[r].pc = "done"
             /\ req'[r].outcome = "invalid"
             /\ bookings' = bookings
             /\ event' = event
             /\ tiers' = tiers
             /\ tx' = tx]_vars

\* a request for two with the event's tier, which had one spot left while the
\* event had room for both, was rejected and the counters are as they were
C23_Witness ==
    \E r \in Req :
        /\ req[r].pc = "done"
        /\ req[r].outcome = "invalid"
        /\ req[r].adults + req[r].children = 2
        /\ req[r].adults >= 1
        /\ req[r].pricing_tier = 1
        /\ tiers[1].event = ThisEvent /\ tiers[1].is_active
        /\ tier_available_spots(tiers[1]) = 1
        /\ tiers[1].max_capacity = Capacity \div 2
        /\ req[r].event = event
        /\ available_spots(event) >= 2
        /\ bookings = << >>

\* the participant types the claim expects for a list of entries: one per entry
\* with a non-blank name, adult where the type is missing or empty
RECURSIVE ExpectedParticipantTypes(_)
ExpectedParticipantTypes(entries) ==
    IF entries = << >> THEN << >>
    ELSE LET e == Head(entries)
         IN  (IF e.name \notin {"", " "}
                THEN <<IF e.ptype \in {NoType, ""} THEN "adult" ELSE e.ptype>>
                ELSE << >>) \o ExpectedParticipantTypes(Tail(entries))

RECURSIVE ActiveParticipants(_)
ActiveParticipants(rows) ==
    IF rows = << >> THEN 0
    ELSE (IF Head(rows).status # "cancelled" THEN Head(rows).number_of_participants
                                             ELSE 0)
         + ActiveParticipants(Tail(rows))

\* C25: after any sequence of booking creations, WhatsApp approvals and status
\* changes on an event that started with current_bookings = 0, current_bookings
\* equals the sum of number_of_participants over its bookings that are not
\* cancelled.
C25_CapacityAccounting ==
    event.current_bookings = ActiveParticipants(bookings)

RECURSIVE BookedWithTier(_, _)
BookedWithTier(t, R) ==
    IF R = {} THEN 0
    ELSE LET r == CHOOSE x \in R : TRUE
         IN  (IF req[r].outcome = "success" /\ req[r].pricing_tier = t
                THEN Total(r) ELSE 0)
             + BookedWithTier(t, R \ {r})

C28_WhatsAppConvertedOnce ==
    [][\A w \in 1..Len(whatsapp) :
          whatsapp[w].status \in {"approved", "rejected"}
          => /\ whatsapp'[w].booking = whatsapp[w].booking
             /\ admin_whatsapp_process(w, "approve") => bookings' = bookings]_vars

C30_ParticipantCounts ==
    \A b \in 1..Len(bookings) :
        /\ bookings[b].number_of_participants
             = bookings[b].adults_count + bookings[b].children_count
        /\ bookings[b].adults_count >= 1

====
